---- MODULE Spec2Model ----
(***************************************************************************)
(* Model of main.py: the text-feature scorer analyze_text_features, the    *)
(* file reader read_file_content and the batch run analyze_folder.         *)
(*                                                                         *)
(* Python str values are sequences of one-character strings, so strip,     *)
(* endswith, basename, join and str.contains are computed on the           *)
(* characters.  The CJK characters of the source's literals are written by *)
(* their pinyin syllable, one element per source character.                *)
(*                                                                         *)
(* Real numbers are kept exact.  ai_score is held in hundredths of a point *)
(* (round(x, 2) is an integer number of hundredths); a value that numpy    *)
(* computes as nan is the record NaN.  Over sentence lengths L_1..L_k with *)
(* S = sum L_i and Q = sum L_i^2, put D = k*Q - S^2.  Then                 *)
(*     np.var(L) = D / k^2     np.std(L) = sqrt(D) / k     np.mean = S / k *)
(* and burstiness = np.std / np.mean = sqrt(D) / S.                        *)
(***************************************************************************)
EXTENDS Integers, Sequences, FiniteSets

VARIABLES walk, disk, pc, files, i, text, analysis, results, notice,
          summary, output_excel, output_chart

vars == <<walk, disk, pc, files, i, text, analysis, results, notice,
          summary, output_excel, output_chart>>

(***************************************************************************)
(* Bounds of the explored inputs.                                          *)
(***************************************************************************)
MaxPad == 1
MaxSents == 3
MaxWords == 4
RepeatCount == 20
MaxSentTokens == 3
MaxPerDir == 2

(***************************************************************************)
(* Numbers of the source.                                                  *)
(***************************************************************************)
MinTextLen == 50
WeightTtr == 3
WeightBurstiness == 2
WeightCommon == 2
WeightPerplexity == 3
PerplexityLimit == 100
Percent == 100
ScoreDecimals == 2
FeatureDecimals == 3
HumanBelow == 40
AmbiguousBelow == 70

\* weights are tenths (0.3 is 3); one tenth of a unit term, times 100, in hundredths
RECURSIVE Pow10(_)
Pow10(n) == IF n = 0 THEN 1 ELSE 10 * Pow10(n - 1)
PerTenth == (Percent * Pow10(ScoreDecimals)) \div 10

(***************************************************************************)
(* Integer helpers.                                                        *)
(***************************************************************************)
SetMax(S) == CHOOSE x \in S : \A y \in S : y <= x
SetMin(S) == CHOOSE x \in S : \A y \in S : x <= y
Sign(x) == IF x > 0 THEN 1 ELSE IF x < 0 THEN -1 ELSE 0

RECURSIVE SumSeq(_)
SumSeq(s) == IF s = <<>> THEN 0 ELSE Head(s) + SumSeq(Tail(s))

\* sign of p1/q1 - p2/q2 for p1, p2 >= 0 and q1, q2 > 0, by continued fractions
\* (no product is formed, so nothing overflows)
RECURSIVE CmpFrac(_, _, _, _)
CmpFrac(p1, q1, p2, q2) ==
    LET a1 == p1 \div q1
        a2 == p2 \div q2
        r1 == p1 % q1
        r2 == p2 % q2
    IN  IF a1 # a2 THEN Sign(a1 - a2)
        ELSE IF r1 = 0 /\ r2 = 0 THEN 0
        ELSE IF r1 = 0 THEN -1
        ELSE IF r2 = 0 THEN 1
        ELSE CmpFrac(q2, r2, q1, r1)

\* sign of m*sqrt(D) - T, for m >= 0 and D >= 0   (m^2 D ? T^2  as  mD/T ? T/m)
SurdCmp(m, D, T) ==
    IF m = 0 \/ D = 0 THEN Sign(0 - T)
    ELSE IF T <= 0 THEN 1
    ELSE CmpFrac(m * D, T, T, m)

\* the largest r in lo..hi with (num - m*sqrt(D)) / den >= r - 1/2, given that lo is one
RECURSIVE HalfFloor(_, _, _, _, _, _)
HalfFloor(num, m, D, den, lo, hi) ==
    IF lo = hi THEN lo
    ELSE LET mid == (lo + hi + 1) \div 2
         IN  IF SurdCmp(2 * m, D, 2 * num - (2 * mid - 1) * den) <= 0
             THEN HalfFloor(num, m, D, den, mid, hi)
             ELSE HalfFloor(num, m, D, den, lo, mid - 1)

\* (num - m*sqrt(D)) / den rounded to the nearest integer, ties to the even one
\* (numpy's round: rint of the scaled value), for den > 0, m >= 0, D >= 0
RoundSurd(num, m, D, den) ==
    LET lo == ((num - m * D) \div den) - 1
        hi == (num \div den) + 1
        r  == HalfFloor(num, m, D, den, lo, hi)
        tie == SurdCmp(2 * m, D, 2 * num - (2 * r - 1) * den) = 0
    IN  IF tie /\ r % 2 # 0 THEN r - 1 ELSE r

\* a float that may be nan
NaN == [nan |-> TRUE, v |-> 0]
Num(x) == [nan |-> FALSE, v |-> x]
\* a < c for an integer c: False when a is nan
Lt(a, c) == ~a.nan /\ a.v < c

(***************************************************************************)
(* str helpers.                                                            *)
(***************************************************************************)
IsSpace(ch) == ch \in {" ", "\n", "\t"}

\* str.strip()
strip(s) ==
    LET keep == {j \in 1..Len(s) : ~IsSpace(s[j])}
    IN  IF keep = {} THEN <<>> ELSE SubSeq(s, SetMin(keep), SetMax(keep))

\* str.endswith(suffix)
endswith(s, suffix) ==
    /\ Len(suffix) <= Len(s)
    /\ SubSeq(s, Len(s) - Len(suffix) + 1, Len(s)) = suffix

\* Series.str.contains(sub), for a literal sub
contains(s, sub) ==
    \E j \in 1..(Len(s) - Len(sub) + 1) : SubSeq(s, j, j + Len(sub) - 1) = sub

\* sep.join(parts)
RECURSIVE join(_, _)
join(sep, parts) ==
    IF parts = <<>> THEN <<>>
    ELSE IF Len(parts) = 1 THEN parts[1]
    ELSE parts[1] \o sep \o join(sep, Tail(parts))

\* os.path.join(root, f)
path_join(root, f) == root \o <<"/">> \o f

\* os.path.basename(p)
basename(p) ==
    LET slashes == {j \in 1..Len(p) : p[j] = "/"}
    IN  IF slashes = {} THEN p ELSE SubSeq(p, SetMax(slashes) + 1, Len(p))

(***************************************************************************)
(* analyze_text_features.  The tokenizers are nltk's: tok carries what     *)
(* they return for the text, sent_lengths[j] = len(word_tokenize(s)) for   *)
(* the j-th sentence s of sent_tokenize(text), and words =                 *)
(* word_tokenize(text.lower()), tokens written as numbers.  textstat's     *)
(* readability is not part of the score and is left out of the record.     *)
(***************************************************************************)
None == [kind |-> "None"]

\* the three values of result, lines 65, 67, 69
RenLeiZhuanXie == <<"ren", "lei", "zhuan", "xie">>
MoHuQu == <<"mo", "hu", "qu", "(", "hun", "he", "huo", "xiu", "shi", "guo", ")">>
GaoJiLuAIShengCheng == <<"gao", "ji", "lu", " ", "A", "I", " ", "sheng", "cheng">>

\* len(set(words))
distinct_words(words) == Cardinality({words[j] : j \in 1..Len(words)})

\* Counter(words).most_common(1)[0][1]
most_common_count(words) ==
    SetMax({Cardinality({j \in 1..Len(words) : words[j] = w}) :
                w \in {words[j] : j \in 1..Len(words)}})

\* sum of the squares of the sentence lengths
SumSq(L) == SumSeq([j \in 1..Len(L) |-> L[j] * L[j]])

\* D = k*Q - S^2: variance is D/k^2, burstiness is sqrt(D)/S
Spread(L) == Len(L) * SumSq(L) - SumSeq(L) * SumSeq(L)

\* np.std(sent_lengths) / np.mean(sent_lengths) is nan: 0/0, or the mean of no sentence
burstiness_is_nan(L) == SumSeq(L) = 0

\* variants of perplexity_below: <= for <, and > for <
perplexity_below_le(L) ==
    Len(L) > 0 /\ Spread(L) <= PerplexityLimit * Len(L) * Len(L)
perplexity_below_gt(L) ==
    Len(L) > 0 /\ Spread(L) > PerplexityLimit * Len(L) * Len(L)

\* pseudo_perplexity < 100   (a nan variance compares False)
perplexity_below(L) ==
    Len(L) > 0 /\ Spread(L) < PerplexityLimit * Len(L) * Len(L)

\* variant of ai_score_of: (1 + burstiness) for (1 - burstiness)
ai_score_of_plus(L, words) ==
    LET n == Len(words)
        S == SumSeq(L)
        ind == IF Len(L) > 0 /\ Spread(L) < PerplexityLimit * Len(L) * Len(L) THEN 1 ELSE 0
        terms == WeightTtr * (n - distinct_words(words))
                   + WeightCommon * most_common_count(words)
                   + (WeightBurstiness + WeightPerplexity * ind) * n
    IN  IF S = 0 THEN NaN
        ELSE Num(0 - RoundSurd(0 - PerTenth * S * terms, PerTenth * WeightBurstiness * n,
                               Spread(L), n * S))

\* round(score * 100, 2) in hundredths, lines 56-62
ai_score_of(L, words) ==
    LET n == Len(words)
        S == SumSeq(L)
        ind == IF perplexity_below(L) THEN 1 ELSE 0
        terms == WeightTtr * (n - distinct_words(words))
                   + WeightCommon * most_common_count(words)
                   + (WeightBurstiness + WeightPerplexity * ind) * n
    IN  IF burstiness_is_nan(L) THEN NaN
        ELSE Num(RoundSurd(PerTenth * S * terms, PerTenth * WeightBurstiness * n,
                           Spread(L), n * S))

\* variant of result_of: <= for <
result_of_le(ai_score) ==
    IF Lt(ai_score, HumanBelow * Pow10(ScoreDecimals) + 1) THEN RenLeiZhuanXie
    ELSE IF Lt(ai_score, AmbiguousBelow * Pow10(ScoreDecimals) + 1) THEN MoHuQu
    ELSE GaoJiLuAIShengCheng

\* the if / elif / else on ai_score, lines 64-69
result_of(ai_score) ==
    IF Lt(ai_score, HumanBelow * Pow10(ScoreDecimals)) THEN RenLeiZhuanXie
    ELSE IF Lt(ai_score, AmbiguousBelow * Pow10(ScoreDecimals)) THEN MoHuQu
    ELSE GaoJiLuAIShengCheng

\* variant of too_short: the length of the text as read, not stripped
too_short_unstripped(txt) == txt = <<>> \/ Len(txt) < MinTextLen

\* the length check of line 36
too_short(txt) == txt = <<>> \/ Len(strip(txt)) < MinTextLen

analyze_text_features(txt, tok) ==
    IF too_short(txt) THEN None
    ELSE IF tok.words = <<>> THEN None
    ELSE LET L == tok.sent_lengths
             n == Len(tok.words)
             ai_score == ai_score_of(L, tok.words)
         IN  [kind |-> "dict",
              text_length |-> Len(txt),
              sentence_count |-> Len(L),
              ttr |-> RoundSurd(Pow10(FeatureDecimals) * distinct_words(tok.words), 0, 0, n),
              burstiness |-> IF burstiness_is_nan(L) THEN NaN
                             ELSE Num(0 - RoundSurd(0, Pow10(FeatureDecimals), Spread(L),
                                                    SumSeq(L))),
              common_ratio |-> RoundSurd(Pow10(FeatureDecimals) * most_common_count(tok.words),
                                         0, 0, n),
              pseudo_perplexity |-> IF Len(L) = 0 THEN NaN
                                    ELSE Num(RoundSurd(Pow10(ScoreDecimals) * Spread(L), 0, 0,
                                                       Len(L) * Len(L))),
              ai_score |-> ai_score,
              result |-> result_of(ai_score)]

(***************************************************************************)
(* read_file_content.  A file on disk is [ok, text, paragraphs, tok]: ok   *)
(* is FALSE when open() or Document() raises on it (a corrupt .docx, an    *)
(* unreadable .txt); text is what f.read() returns for a .txt, paragraphs  *)
(* the p.text of a .docx; tok is what the tokenizers return for the text   *)
(* read from it.  The result is [raised, value].                           *)
(***************************************************************************)
DotTxt == <<".", "t", "x", "t">>
DotDocx == <<".", "d", "o", "c", "x">>

read_file_content(filepath, entry) ==
    IF endswith(filepath, DotTxt)
    THEN [raised |-> ~entry.ok, value |-> entry.text]
    ELSE IF endswith(filepath, DotDocx)
    THEN [raised |-> ~entry.ok, value |-> join(<<"\n">>, entry.paragraphs)]
    ELSE [raised |-> FALSE, value |-> <<>>]

(***************************************************************************)
(* analyze_folder.  walk is what os.walk(folder_path) yields, a sequence   *)
(* of [root, filelist].                                                    *)
(***************************************************************************)
\* f.endswith((".txt", ".docx")), line 103
eligible(f) == endswith(f, DotTxt) \/ endswith(f, DotDocx)

\* the paths of one directory, lines 102-104
dir_files(root, filelist) ==
    LET keep == SelectSeq(filelist, eligible)
    IN  [j \in 1..Len(keep) |-> path_join(root, keep[j])]

\* the two loops of lines 101-104
RECURSIVE discover(_)
discover(w) ==
    IF w = <<>> THEN <<>>
    ELSE dir_files(w[1].root, w[1].filelist) \o discover(Tail(w))

\* analysis["file name"] = os.path.basename(file), line 114
tagged(a, file) ==
    [f \in DOMAIN a \cup {"file_name"} |-> IF f = "file_name" THEN basename(file) ELSE a[f]]

\* the messagebox calls of lines 107, 118 and 176
NoNotice == [kind |-> "none", title |-> "", message |-> ""]
NoFilesNotice ==
    [kind |-> "showwarning", title |-> "TiShi",
     message |-> "ZhaoBuDao .txt Huo .docx DangAn"]
NoContentNotice ==
    [kind |-> "showinfo", title |-> "JieGuo", message |-> "MeiYou KeFenXi De NeiRong"]
DoneNotice == [kind |-> "showinfo", title |-> "WanCheng", message |-> "FenXi WanCheng"]

\* the ai_score column without its nan cells (pandas reductions skip nan)
scores_of(rs) ==
    LET nums == SelectSeq(rs, LAMBDA r : ~r.ai_score.nan)
    IN  [j \in 1..Len(nums) |-> nums[j].ai_score.v]

\* variant of mean_score: truncated, not rounded
mean_score_truncated(rs) ==
    LET sc == scores_of(rs)
    IN  IF sc = <<>> THEN NaN ELSE Num(SumSeq(sc) \div Len(sc))

\* df[col].mean(), rounded to 2 places, line 130
mean_score(rs) ==
    LET sc == scores_of(rs)
    IN  IF sc = <<>> THEN NaN ELSE Num(RoundSurd(SumSeq(sc), 0, 0, Len(sc)))

\* df[col].max(), line 131
max_score(rs) ==
    LET sc == scores_of(rs)
    IN  IF sc = <<>> THEN NaN ELSE Num(SetMax({sc[j] : j \in 1..Len(sc)}))

\* df[col].min(), line 132
min_score(rs) ==
    LET sc == scores_of(rs)
    IN  IF sc = <<>> THEN NaN ELSE Num(SetMin({sc[j] : j \in 1..Len(sc)}))

\* sum(df[result] == "gao ji lu AI sheng cheng"), line 133
count_ai(rs) == Cardinality({j \in 1..Len(rs) : rs[j].result = GaoJiLuAIShengCheng})

\* sum(df[result].str.contains("mo hu")), line 134
count_ambiguous(rs) == Cardinality({j \in 1..Len(rs) : contains(rs[j].result, <<"mo", "hu">>)})

\* sum(df[result] == "ren lei zhuan xie"), line 135
count_human(rs) == Cardinality({j \in 1..Len(rs) : rs[j].result = RenLeiZhuanXie})

\* the summary dict, lines 128-136
summary_of(rs) ==
    [kind |-> "dict",
     total |-> Len(rs),
     mean |-> mean_score(rs),
     max |-> max_score(rs),
     min |-> min_score(rs),
     ai |-> count_ai(rs),
     ambiguous |-> count_ambiguous(rs),
     human |-> count_human(rs)]

\* variant of Discover: the check for no files is missing
Discover_unguarded ==
    /\ pc = "start"
    /\ files' = discover(walk)
    /\ pc' = "loop"
    /\ UNCHANGED <<walk, disk, i, text, analysis, results, notice, summary,
                   output_excel, output_chart>>

\* lines 99-108
Discover ==
    /\ pc = "start"
    /\ files' = discover(walk)
    /\ IF files' = <<>>
       THEN notice' = NoFilesNotice /\ pc' = "done"
       ELSE notice' = notice /\ pc' = "loop"
    /\ UNCHANGED <<walk, disk, i, text, analysis, results, summary,
                   output_excel, output_chart>>

\* variant of ProcessFile: the record is put first, not last
ProcessFile_prepend ==
    /\ pc = "loop"
    /\ i < Len(files)
    /\ LET file == files[i + 1]
           got == read_file_content(file, disk[file])
           a == analyze_text_features(got.value, disk[file].tok)
       IN  /\ ~got.raised
           /\ text' = got.value
           /\ analysis' = a
           /\ results' = IF a # None THEN <<tagged(a, file)>> \o results ELSE results
    /\ i' = i + 1
    /\ UNCHANGED <<walk, disk, pc, files, notice, summary, output_excel, output_chart>>

\* one turn of the loop of lines 110-115
ProcessFile ==
    /\ pc = "loop"
    /\ i < Len(files)
    /\ LET file == files[i + 1]
           got == read_file_content(file, disk[file])
           a == analyze_text_features(got.value, disk[file].tok)
       IN  /\ ~got.raised
           /\ text' = got.value
           /\ analysis' = a
           /\ results' = IF a # None THEN Append(results, tagged(a, file)) ELSE results
    /\ i' = i + 1
    /\ UNCHANGED <<walk, disk, pc, files, notice, summary, output_excel, output_chart>>

\* line 111 when open() or Document() raises: nothing catches it, the run ends
ReadRaises ==
    /\ pc = "loop"
    /\ i < Len(files)
    /\ read_file_content(files[i + 1], disk[files[i + 1]]).raised
    /\ pc' = "raised"
    /\ UNCHANGED <<walk, disk, files, i, text, analysis, results, notice, summary,
                   output_excel, output_chart>>

\* lines 117-179
Finish ==
    /\ pc = "loop"
    /\ i = Len(files)
    /\ pc' = "done"
    /\ IF results = <<>>
       THEN /\ notice' = NoContentNotice
            /\ UNCHANGED <<summary, output_excel, output_chart>>
       ELSE /\ summary' = summary_of(results)
            /\ output_excel' = TRUE
            /\ output_chart' = TRUE
            /\ notice' = DoneNotice
    /\ UNCHANGED <<walk, disk, files, i, text, analysis, results>>

Next == Discover \/ ProcessFile \/ ReadRaises \/ Finish

(***************************************************************************)
(* The explored folders and file contents.                                 *)
(***************************************************************************)
\* a text of `core` non-blank characters between `lead` blanks and `trail` newlines
MkText(lead, core, trail) ==
    [j \in 1..(lead + core + trail) |->
        IF j <= lead THEN " " ELSE IF j <= lead + core THEN "x" ELSE "\n"]

\* count[j] copies of token j, for each j
RECURSIVE WordsOf(_)
WordsOf(count) ==
    IF count = <<>> THEN <<>>
    ELSE WordsOf(SubSeq(count, 1, Len(count) - 1))
           \o [j \in 1..count[Len(count)] |-> Len(count)]

\* the token sequences of length n, up to renaming of the tokens
WordSeqs(n) ==
    {w \in [1..n -> 1..n] :
        \A j \in 1..n : w[j] <= 1 + SetMax({0} \cup {w[h] : h \in 1..(j - 1)})}

Tok(L, w) == [sent_lengths |-> L, words |-> w]
TxtFile(t, tk) == [ok |-> TRUE, text |-> t, paragraphs |-> <<>>, tok |-> tk]
DocxFile(ps, tk) == [ok |-> TRUE, text |-> <<>>, paragraphs |-> ps, tok |-> tk]
Unreadable == [ok |-> FALSE, text |-> <<>>, paragraphs |-> <<>>, tok |-> Tok(<<>>, <<>>)]

InitRun ==
    /\ pc = "start"
    /\ files = <<>>
    /\ i = 0
    /\ text = <<>>
    /\ analysis = None
    /\ results = <<>>
    /\ notice = NoNotice
    /\ summary = None
    /\ output_excel = FALSE
    /\ output_chart = FALSE

Top == <<"d">>
Sub == <<"d", "/", "s">>
ATxt == <<"a", ".", "t", "x", "t">>
BDocx == <<"b", ".", "d", "o", "c", "x">>
NPdf == <<"n", ".", "p", "d", "f">>
Names == {ATxt, BDocx, NPdf}

\* the listings of one directory with at most max files
Filelists(max) ==
    UNION {{fl \in [1..k -> Names] : \A a, b \in 1..k : a # b => fl[a] # fl[b]} :
              k \in 0..max}

\* every path os.walk lists, eligible or not
RECURSIVE PathsOf(_)
PathsOf(w) ==
    IF w = <<>> THEN {}
    ELSE {path_join(w[1].root, w[1].filelist[j]) : j \in 1..Len(w[1].filelist)}
           \cup PathsOf(Tail(w))

\* Files as nltk tokenizes them: every sentence holds a token and the sentences'
\* tokens are the words.  Scores: 2.73, 50.91, 80.00 and -5.85.
AllDistinct(n) == [j \in 1..n |-> j]
HumanTok == Tok(<<1, 21>>, AllDistinct(22))
AmbiguousTok == Tok(<<11, 11>>, AllDistinct(22))
AITok == Tok(<<2, 2>>, WordsOf(<<3, 1>>))
BurstyTok == Tok(<<1, 41, 1>>, AllDistinct(43))
TxtContents ==
    {Unreadable,
     TxtFile(<<>>, Tok(<<>>, <<>>)),
     TxtFile(MkText(1, MinTextLen - 1, 1), AITok),
     TxtFile(MkText(0, MinTextLen, 0), HumanTok),
     TxtFile(MkText(0, MinTextLen, 1), AmbiguousTok),
     TxtFile(MkText(1, MinTextLen, 0), AITok),
     TxtFile(MkText(0, MinTextLen + 1, 0), BurstyTok)}
DocxContents ==
    {Unreadable,
     DocxFile(<<>>, Tok(<<>>, <<>>)),
     DocxFile(<<MkText(0, MinTextLen \div 2, 0), MkText(0, MinTextLen \div 2 - 2, 0)>>, AITok),
     DocxFile(<<MkText(0, MinTextLen \div 2, 0), MkText(0, MinTextLen \div 2 - 1, 0)>>, AITok),
     DocxFile(<<MkText(0, MinTextLen, 0)>>, HumanTok),
     DocxFile(<<MkText(0, MinTextLen, 0), <<>>>>, AmbiguousTok)}
Opaque == TxtFile(<<>>, Tok(<<>>, <<>>))

ContentsFor(p) ==
    IF endswith(p, DotTxt) THEN TxtContents
    ELSE IF endswith(p, DotDocx) THEN DocxContents
    ELSE {Opaque}

\* a folder of up to MaxPerDir files and a subfolder of at most one
Init ==
    /\ walk \in {<<[root |-> Top, filelist |-> f1], [root |-> Sub, filelist |-> f2]>> :
                    f1 \in Filelists(MaxPerDir), f2 \in Filelists(1)}
    /\ disk \in {d \in [PathsOf(walk) -> TxtContents \cup DocxContents \cup {Opaque}] :
                    \A p \in PathsOf(walk) : d[p] \in ContentsFor(p)}
    /\ InitRun

Spec == Init /\ [][Next]_vars

\* One file, and the answers a tokenizer may give for its text: sentences of a
\* few or many tokens, or of none at all, with any words (none included).
SentLens == {1, 21, 41}
SentSeqs ==
    UNION {[1..k -> SentLens] \cup {[j \in 1..k |-> 0]} : k \in 1..MaxSents}
AllWordSeqs == UNION {WordSeqs(n) : n \in 0..MaxWords}
ShortTexts == {MkText(p, c, p) : p \in 0..MaxPad, c \in {0, MinTextLen - 1}}
LongTexts == {MkText(p, MinTextLen, p) : p \in 0..MaxPad}

\* a sentence t said RepeatCount times
Repeated(t) ==
    Tok([j \in 1..RepeatCount |-> Len(t)],
        [j \in 1..(RepeatCount * Len(t)) |-> t[((j - 1) % Len(t)) + 1]])
RepeatedToks == {Repeated(t) : t \in UNION {WordSeqs(n) : n \in 1..MaxSentTokens}}

TextContents ==
    {Unreadable}
      \cup {TxtFile(t, tk) : t \in ShortTexts, tk \in {Tok(<<>>, <<>>), AITok}}
      \cup {TxtFile(t, Tok(L, w)) : t \in LongTexts, L \in SentSeqs, w \in AllWordSeqs}
      \cup {TxtFile(MkText(0, MinTextLen, 0), tk) : tk \in RepeatedToks}

InitText ==
    /\ walk = <<[root |-> Top, filelist |-> <<ATxt>>]>>
    /\ disk \in [{path_join(Top, ATxt)} -> TextContents]
    /\ InitRun

SpecText == InitText /\ [][Next]_vars

(***************************************************************************)
(* The claims.                                                             *)
(***************************************************************************)
\* what the tokenizers answered for the file of the last turn of the loop
LastTok == disk[files[i]].tok
Analyzed == i >= 1 /\ analysis # None
Abs(x) == IF x < 0 THEN 0 - x ELSE x

LeadingBlanks(t) == Cardinality({j \in 1..Len(t) : \A h \in 1..j : IsSpace(t[h])})
TrailingBlanks(t) == Cardinality({j \in 1..Len(t) : \A h \in j..Len(t) : IsSpace(t[h])})
TrimmedLen(t) ==
    IF LeadingBlanks(t) = Len(t) THEN 0 ELSE Len(t) - LeadingBlanks(t) - TrailingBlanks(t)

\* C1: a file whose content cannot be read is skipped and the batch goes on to
\* the records and summary of the other files: stated for a folder [A, B, C]
\* whose B is a .docx that Document() cannot open and whose A and C are
\* analyzable, the run does not end on an exception.  The code catches nothing.
C1_NoFileAbortsTheBatch ==
    (/\ Len(files) = 3
     /\ endswith(files[2], DotDocx)
     /\ ~disk[files[2]].ok
     /\ \A j \in {1, 3} :
           /\ disk[files[j]].ok
           /\ analyze_text_features(read_file_content(files[j], disk[files[j]]).value,
                                    disk[files[j]].tok) # None)
        => pc # "raised"

\* C2: a turn of the loop over a text that is empty, blank or of trimmed length
\* below 50, or whose word tokens are none, gets None and appends no record; a
\* text of trimmed length 50 or more with a word token gets a result.
C2_NoResultForShortText ==
    [][(pc = "loop" /\ i' = i + 1) =>
         LET short == TrimmedLen(text') < 50 \/ disk[files[i']].tok.words = <<>>
         IN  /\ short => (analysis' = None /\ results' = results)
             /\ ~short => (analysis' # None /\ Len(results') = Len(results) + 1)]_vars

\* a text of trimmed length 49 between blanks was read, and no record came of it
C2_Witness ==
    /\ i = 1
    /\ TrimmedLen(text) = 49
    /\ Len(text) >= 50
    /\ analysis = None
    /\ results = <<>>

C4_LabelByThreshold ==
    Analyzed =>
        LET s == analysis.ai_score
            r == analysis.result
        IN  /\ Cardinality({RenLeiZhuanXie, MoHuQu, GaoJiLuAIShengCheng}) = 3
            /\ r \in {RenLeiZhuanXie, MoHuQu, GaoJiLuAIShengCheng}
            /\ (~s.nan /\ s.v <= 3999) => r = RenLeiZhuanXie
            /\ (~s.nan /\ 4000 <= s.v /\ s.v <= 6999) => r = MoHuQu
            /\ (~s.nan /\ s.v >= 7000) => r = GaoJiLuAIShengCheng

\* a score of exactly 70.00, labelled high-probability AI
C4_Witness ==
    Analyzed /\ analysis.ai_score = Num(7000) /\ analysis.result = GaoJiLuAIShengCheng

\* C5: the score is 100 * (0.30 (1 - ttr) + 0.20 (1 - burstiness) + 0.20 common
\* + 0.30 [variance < 100]) rounded to 2 places: in hundredths, with n words of
\* which d distinct and c the commonest, it is within 1/2 of
\*    (3000 (n - d) + 2000 n + 2000 c + 3000 [D < 100 k^2] n) / n - 2000 sqrt(D) / S;
\* burstiness is not clamped and the variance test is strict.
C5_ScoreFormula ==
    Analyzed =>
        LET L == LastTok.sent_lengths
            w == LastTok.words
            n == Len(w)
            k == Len(L)
            S == SumSeq(L)
            D == k * SumSeq([j \in 1..k |-> L[j] * L[j]]) - S * S
            d == Cardinality({w[j] : j \in 1..n})
            c == SetMax({Cardinality({j \in 1..n : w[j] = w[h]}) : h \in 1..n})
            low == IF D < 100 * k * k THEN 3000 ELSE 0
            G == 2 * S * (3000 * (n - d) + 2000 * n + 2000 * c + low * n
                            - analysis.ai_score.v * n)
        IN  IF S = 0 THEN analysis.ai_score.nan
            ELSE /\ ~analysis.ai_score.nan
                 /\ SurdCmp(4000 * n, D, G + n * S) <= 0
                 /\ SurdCmp(4000 * n, D, G - n * S) >= 0

\* a score over sentence lengths whose variance is exactly 100
C5_Witness ==
    /\ Analyzed
    /\ ~analysis.ai_score.nan
    /\ Spread(LastTok.sent_lengths) = 100 * Len(LastTok.sent_lengths) * Len(LastTok.sent_lengths)

\* the tokenizers' answers for one sentence of 1 or more tokens said 20 times
IsRepeated(tk) ==
    /\ Len(tk.sent_lengths) = RepeatCount
    /\ tk.sent_lengths[1] >= 1
    /\ \A j \in 1..RepeatCount : tk.sent_lengths[j] = tk.sent_lengths[1]
    /\ Len(tk.words) = RepeatCount * tk.sent_lengths[1]
    /\ \A j \in 1..Len(tk.words) :
          j > tk.sent_lengths[1] => tk.words[j] = tk.words[j - tk.sent_lengths[1]]

\* C9: a document of one sentence said 20 times scores 70 or more and is
\* labelled high-probability AI.
C9_RepeatedSentenceIsAI ==
    (Analyzed /\ IsRepeated(LastTok)) =>
        /\ ~analysis.ai_score.nan
        /\ analysis.ai_score.v >= 7000
        /\ analysis.result = GaoJiLuAIShengCheng

\* a repeated sentence of three different tokens was scored
C9_Witness ==
    /\ Analyzed
    /\ IsRepeated(LastTok)
    /\ Cardinality({LastTok.words[j] : j \in 1..Len(LastTok.words)}) = 3

RECURSIVE Listed(_)
Listed(w) ==
    IF w = <<>> THEN <<>>
    ELSE SelectSeq([j \in 1..Len(w[1].filelist) |->
                       [root |-> w[1].root, name |-> w[1].filelist[j]]],
                   LAMBDA e : eligible(e.name))
           \o Listed(Tail(w))

\* what extraction returns for a listed file
Outcome(e) ==
    LET p == e.root \o <<"/">> \o e.name
    IN  analyze_text_features(read_file_content(p, disk[p]).value, disk[p].tok)

\* the records of the first m listed files: one for each file whose extraction
\* returned a result, in the order listed, under the file's name
RECURSIVE RecordsOfFirst(_, _)
RecordsOfFirst(listed, m) ==
    IF m = 0 THEN <<>>
    ELSE LET o == Outcome(listed[m])
             before == RecordsOfFirst(listed, m - 1)
         IN  IF o = None THEN before
             ELSE Append(before,
                         [f \in DOMAIN o \cup {"file_name"} |->
                             IF f = "file_name" THEN listed[m].name ELSE o[f]])

\* C6: after any number i of files, the records are those of the first i files
\* whose extraction returned a result, one each, in discovery order, each with
\* its file's name.
C6_RecordsInDiscoveryOrder ==
    /\ i <= Len(Listed(walk))
    /\ results = RecordsOfFirst(Listed(walk), i)

\* three files were processed, the second gave no result, the other two did
C6_Witness ==
    /\ i = 3
    /\ Len(results) = 2
    /\ Outcome(Listed(walk)[1]) # None
    /\ Outcome(Listed(walk)[2]) = None
    /\ Outcome(Listed(walk)[3]) # None

\* C7: the summary of a non-empty record set: total is the number of records,
\* mean their mean score to 2 places, max and min the largest and smallest
\* score, and each label count the number of records with exactly that label.
C7_SummaryCorrect ==
    (pc = "done" /\ results # <<>> /\ \A j \in 1..Len(results) : ~results[j].ai_score.nan) =>
        LET N == Len(results)
            sc == [j \in 1..N |-> results[j].ai_score.v]
            With(lab) == Cardinality({j \in 1..N : results[j].result = lab})
        IN  /\ summary.total = N
            /\ ~summary.mean.nan
            /\ 2 * Abs(summary.mean.v * N - SumSeq(sc)) <= N
            /\ \E j \in 1..N : summary.max = Num(sc[j])
            /\ \A j \in 1..N : sc[j] <= summary.max.v
            /\ \E j \in 1..N : summary.min = Num(sc[j])
            /\ \A j \in 1..N : sc[j] >= summary.min.v
            /\ summary.ai = With(GaoJiLuAIShengCheng)
            /\ summary.ambiguous = With(MoHuQu)
            /\ summary.human = With(RenLeiZhuanXie)
            /\ summary.ai + summary.ambiguous + summary.human = summary.total

\* a summary of three records, one of each label
C7_Witness ==
    /\ pc = "done"
    /\ Len(results) = 3
    /\ summary # None
    /\ summary.ai = 1
    /\ summary.ambiguous = 1
    /\ summary.human = 1

====
